---- MODULE Spec2Model ----
(***************************************************************************)
(* ndns: a DNS filtering forwarder.  Model of DnsHandler (src/src/dns.rs): *)
(* the suffix classifier with its two decision-cache sets, the shared      *)
(* upstream handle, and the per-request path through handle_request,       *)
(* try_handle_request, handle_query, is_blocked, forward_to_upstream and   *)
(* send_response.  Every request runs as its own task; tasks interleave at *)
(* the await points of the source.                                         *)
(***************************************************************************)
EXTENDS Integers, Sequences, FiniteSets, TLC

(* ---------------- bounds of the model ---------------- *)
(* requests handed to the handler over a run *)
MaxRequests == 2

(* The server spawns one task per request; two of them run at a time.      *)
Tasks == {1, 2}

(* ---------------- Option<T> ---------------- *)
None == <<>>
Some(x) == <<x>>
IsSome(o) == o # <<>>
Unwrap(o) == o[1]

(* ---------------- strings ---------------- *)
(* A string is a sequence of characters.  "U" stands for a non-ASCII       *)
(* character whose UTF-8 encoding takes two bytes (a name label given in   *)
(* punycode is rendered in Unicode by Name::to_utf8); every other          *)
(* character is ASCII and takes one byte.                                  *)
Utf8Width(c) == IF c = "U" THEN 2 ELSE 1

RECURSIVE StrLen(_)
StrLen(s) == IF s = <<>> THEN 0 ELSE Utf8Width(Head(s)) + StrLen(Tail(s))

CharCount(s) == Len(s)

EndsWith(name, it) ==
    /\ CharCount(it) <= CharCount(name)
    /\ SubSeq(name, CharCount(name) - CharCount(it) + 1, CharCount(name)) = it

Take(s, n) == SubSeq(s, 1, IF n < CharCount(s) THEN n ELSE CharCount(s))

LastChar(s) == IF s = <<>> THEN None ELSE Some(s[CharCount(s)])

does_end(name, it) ==
    IF ~EndsWith(name, it) THEN FALSE
    ELSE IF LastChar(Take(name, StrLen(name) - StrLen(it))) = Some(".") THEN TRUE
    ELSE FALSE

(* build_blocklist: every line gets a trailing dot unless it has one; the  *)
(* lines drawn below carry no surrounding whitespace, so trim() keeps them. *)
DotTerminate(line) == IF EndsWith(line, <<".">>) THEN line ELSE Append(line, ".")
build_blocklist(lines) == {DotTerminate(l) : l \in lines}

BlocklistFiles ==
    { {<<"a", ".", "b">>},
      {<<"a", ".", "b", ".">>, <<"b">>} }

Names ==
    { <<"a", ".", "b", ".">>,
      <<"w", ".", "a", ".", "b", ".">>,
      <<"w", "a", ".", "b", ".">>,
      <<"a", ".", "b", ".", "w", ".">>,
      <<"U", ".", "a", ".", "b", ".">>,
      <<"U", "U", "a", ".", "b", ".">> }

(* ---------------- response codes ---------------- *)
ServFail == 2
NXDomain == 3
NotImp == 4
BADVERS == 16
(* ResponseCode::low() in the place of high(): the lower 4 bits *)
high_takes_low(code) == code % 16

(* ResponseCode::high(): the upper 8 bits of the 12-bit extended code *)
high(code) == (code \div 16) % 256

OLD_VERSION == 0
MinPayload == 512

Max(a, b) == IF a >= b THEN a ELSE b

(* ---------------- requests and upstream answers ---------------- *)
FewEdnsOptions ==
    { None,
      Some([version |-> 0, max_payload |-> 256]),
      Some([version |-> 1, max_payload |-> 4096]) }

EdnsOptions == FewEdnsOptions \cup {Some([version |-> 0, max_payload |-> 4096])}

(* A request whose query section does not hold exactly one query has no    *)
(* request info (request_info() fails) and no name.  The name of a request *)
(* is read by handle_query only, so the requests that never get there all  *)
(* carry the same name.  That name is asked with every EDNS option, the    *)
(* other names with fewer.                                                 *)
AnyName == <<"w", ".", "a", ".", "b", ".">>

Requests ==
    [queries_ok : {TRUE}, edns : FewEdnsOptions, message_type : {"Query"},
     op_code : {"Query"}, name : Names]
    \cup
    [queries_ok : {TRUE}, edns : EdnsOptions, message_type : {"Query", "Response"},
     op_code : {"Query", "Update"}, name : {AnyName}]
    \cup
    [queries_ok : {FALSE}, edns : EdnsOptions, message_type : {"Query", "Response"},
     op_code : {"Query", "Update"}, name : {<<>>}]

NoRequest ==
    [queries_ok |-> FALSE, edns |-> None, message_type |-> "Query",
     op_code |-> "Query", name |-> <<>>]

(* Ok(DnsResponse) of the upstream: response code, recursion-available and *)
(* the three record sections.  Codes: 0 NoError, 2 ServFail, 3 NXDomain.   *)
UpstreamResponses ==
    { [rcode |-> 0, ra |-> TRUE, answers |-> <<"rr1", "rr2">>, authorities |-> <<"ns">>,
       additionals |-> <<"glue">>],
      [rcode |-> 3, ra |-> TRUE, answers |-> <<>>, authorities |-> <<"soa">>,
       additionals |-> <<>>],
      [rcode |-> 2, ra |-> FALSE, answers |-> <<>>, authorities |-> <<>>,
       additionals |-> <<>>] }

(* Result<DnsResponse>: Some(response) is Ok, None is Err *)
UpstreamResults == {None} \cup {Some(r) : r \in UpstreamResponses}

(* ---------------- state ---------------- *)
VARIABLES
    blocklist,       \* DnsHandler.blocklist
    cached_allow,    \* DnsHandler.cached_allow (the set behind the RwLock)
    cached_block,    \* DnsHandler.cached_block
    allow_readers,   \* tasks holding a read guard of cached_allow
    allow_writer,    \* task holding the write guard of cached_allow, 0 if none
    block_readers,   \* tasks holding a read guard of cached_block
    block_writer,    \* task holding the write guard of cached_block, 0 if none
    upstream_owner,  \* task holding the upstream Mutex guard, 0 if none
    pc,              \* position of each request task
    request,         \* the request a task handles
    response_edns,   \* try_handle_request's response_edns
    verdict,         \* Some(result of is_blocked) once it returned
    scanned,         \* the task's is_blocked call iterated the blocklist
    prior,           \* verdict of the first completed is_blocked call for the
                     \* task's name, as of the start of the task's own call
    after_failure,   \* as of the start of the task's is_blocked call, another
                     \* request for the same name has ended on a forwarding error
    upstream_calls,  \* calls of Client::query made for the task's request
    upstream_result, \* Some(result of forward_to_upstream) once it returned
    outbound,        \* the response the task is about to hand to the sink
    sent,            \* responses handed to the request's response sink
    sink_ok,         \* outcome of ResponseHandler::send_response
    response_info,   \* Some(code of the ResponseInfo handle_request returned)
    first_verdict,   \* per name: verdict of its first completed is_blocked call
    accepted,        \* requests handed to the handler so far
    process,         \* main_inner: "serving" inside select!, "stopped" after it
    driver           \* the upstream connection's background task (upstream_handle):
                     \* "running", or how it ended, "ok" or "err"

cache_vars == <<cached_allow, cached_block>>
lock_vars == <<allow_readers, allow_writer, block_readers, block_writer, upstream_owner>>
classify_vars == <<verdict, scanned, prior, after_failure, after_failure, first_verdict>>
upstream_vars == <<upstream_calls, upstream_result>>
reply_vars == <<outbound, sent, sink_ok, response_info>>
main_vars == <<process, driver>>
vars == <<blocklist, cache_vars, lock_vars, pc, request, response_edns,
          classify_vars, upstream_vars, reply_vars, accepted, main_vars>>

(* DnsHandler::new: both cache sets empty; the blocklist is what           *)
(* build_blocklist read.  main_inner has spawned the upstream driver and   *)
(* waits in select!.                                                       *)
Init ==
    /\ blocklist \in {build_blocklist(f) : f \in BlocklistFiles}
    /\ cached_allow = {}
    /\ cached_block = {}
    /\ allow_readers = {}
    /\ allow_writer = 0
    /\ block_readers = {}
    /\ block_writer = 0
    /\ upstream_owner = 0
    /\ pc = [t \in Tasks |-> "idle"]
    /\ request = [t \in Tasks |-> NoRequest]
    /\ response_edns = [t \in Tasks |-> None]
    /\ verdict = [t \in Tasks |-> None]
    /\ scanned = [t \in Tasks |-> FALSE]
    /\ prior = [t \in Tasks |-> None]
    /\ after_failure = [t \in Tasks |-> FALSE]
    /\ upstream_calls = [t \in Tasks |-> 0]
    /\ upstream_result = [t \in Tasks |-> None]
    /\ outbound = [t \in Tasks |-> None]
    /\ sent = [t \in Tasks |-> <<>>]
    /\ sink_ok = [t \in Tasks |-> TRUE]
    /\ response_info = [t \in Tasks |-> None]
    /\ first_verdict = [n \in Names |-> None]
    /\ accepted = 0
    /\ process = "serving"
    /\ driver = "running"

(* ---------------- building responses ---------------- *)
(* line 156 without .max(512): the requested payload size is taken as is *)
ResponseEdns_without_floor(req_edns) ==
    [version |-> OLD_VERSION, dnssec_ok |-> TRUE,
     max_payload |-> req_edns.max_payload, rcode_high |-> 0]

(* line 157 with the request's version in place of OLD_VERSION *)
ResponseEdns_echoes_version(req_edns) ==
    [version |-> req_edns.version, dnssec_ok |-> TRUE,
     max_payload |-> Max(req_edns.max_payload, MinPayload), rcode_high |-> 0]

(* Edns::new() with dnssec_ok, max_payload and version set (lines 154-157) *)
ResponseEdns(req_edns) ==
    [version |-> OLD_VERSION, dnssec_ok |-> TRUE,
     max_payload |-> Max(req_edns.max_payload, MinPayload), rcode_high |-> 0]

(* MessageResponseBuilder::error_msg / build_no_records: a header with the *)
(* given code and no records                                               *)
NoRecords(code) ==
    [rcode |-> code, ra |-> FALSE, answers |-> <<>>, authorities |-> <<>>,
     additionals |-> <<>>, edns |-> None]

(* the additionals passed in the SOA position of build(): they are lost *)
Forwarded_drops_additionals(up) ==
    [rcode |-> up.rcode, ra |-> up.ra, answers |-> up.answers,
     authorities |-> up.authorities \o up.additionals, additionals |-> <<>>,
     edns |-> None]

(* handle_query lines 96-109: header from the upstream's code and flag,    *)
(* answers, name servers (authorities), no SOA, additionals                *)
Forwarded(up) ==
    [rcode |-> up.rcode, ra |-> up.ra, answers |-> up.answers,
     authorities |-> up.authorities \o <<>>, additionals |-> up.additionals,
     edns |-> None]

(* the closure of handle_request: a ResponseInfo whose header says ServFail *)
ErrorInfo == Some(ServFail)

IsQuery(r) == r.message_type = "Query" /\ r.op_code = "Query"

(* ---------------- handle_request / try_handle_request ---------------- *)
(* A request task runs only while the process serves.                      *)
(* The handler is invoked with a request and runs to its first await:      *)
(* request_info()?, the EDNS negotiation, the message-type/op-code match   *)
(* and, for a query, handle_query up to the call of is_blocked.            *)
handle_request(t) ==
    /\ pc[t] = "idle"
    /\ process = "serving"
    /\ accepted < MaxRequests
    /\ \E r \in Requests :
        /\ request' = [request EXCEPT ![t] = r]
        /\ accepted' = accepted + 1
        /\ IF ~r.queries_ok
           THEN /\ pc' = [pc EXCEPT ![t] = "done"]
                /\ response_info' = [response_info EXCEPT ![t] = ErrorInfo]
                /\ UNCHANGED <<response_edns, outbound, prior, after_failure>>
           ELSE IF IsSome(r.edns) /\ Unwrap(r.edns).version > OLD_VERSION
           THEN /\ pc' = [pc EXCEPT ![t] = "send_badvers"]
                /\ outbound' = [outbound EXCEPT ![t] =
                      Some([NoRecords(BADVERS) EXCEPT !.edns =
                          Some([ResponseEdns(Unwrap(r.edns)) EXCEPT
                                   !.rcode_high = high(BADVERS)])])]
                /\ UNCHANGED <<response_edns, response_info, prior, after_failure>>
           ELSE /\ response_edns' = [response_edns EXCEPT ![t] =
                      IF IsSome(r.edns) THEN Some(ResponseEdns(Unwrap(r.edns)))
                      ELSE None]
                /\ IF IsQuery(r)
                   THEN /\ pc' = [pc EXCEPT ![t] = "block_read"]
                        /\ prior' = [prior EXCEPT ![t] = first_verdict[r.name]]
                        /\ after_failure' = [after_failure EXCEPT ![t] =
                              \E u \in Tasks \ {t} :
                                  /\ pc[u] = "done"
                                  /\ upstream_result[u] = Some(None)
                                  /\ request[u].name = r.name]
                        /\ UNCHANGED outbound
                   ELSE /\ pc' = [pc EXCEPT ![t] = "send"]
                        /\ outbound' = [outbound EXCEPT ![t] = Some(NoRecords(NotImp))]
                        /\ UNCHANGED <<prior, after_failure>>
                /\ UNCHANGED response_info
    /\ UNCHANGED <<blocklist, cache_vars, lock_vars, verdict, scanned, first_verdict,
                   upstream_vars, sent, sink_ok>>
    /\ UNCHANGED main_vars

(* ---------------- is_blocked ---------------- *)
(* handle_query without the branch on the verdict: every name is forwarded *)
is_blocked_return_forwards(t, b) ==
    /\ verdict' = [verdict EXCEPT ![t] = Some(b)]
    /\ first_verdict' =
          IF first_verdict[request[t].name] = None
          THEN [first_verdict EXCEPT ![request[t].name] = Some(b)]
          ELSE first_verdict
    /\ pc' = [pc EXCEPT ![t] = "upstream_lock"]
    /\ UNCHANGED outbound

(* is_blocked returns b to handle_query (lines 85-91, 114-121): a blocked  *)
(* name gets the NXDomain error message, an allowed one is forwarded.      *)
is_blocked_return(t, b) ==
    /\ verdict' = [verdict EXCEPT ![t] = Some(b)]
    /\ first_verdict' =
          IF first_verdict[request[t].name] = None
          THEN [first_verdict EXCEPT ![request[t].name] = Some(b)]
          ELSE first_verdict
    /\ IF b
       THEN /\ pc' = [pc EXCEPT ![t] = "send"]
            /\ outbound' = [outbound EXCEPT ![t] = Some(NoRecords(NXDomain))]
       ELSE /\ pc' = [pc EXCEPT ![t] = "upstream_lock"]
            /\ UNCHANGED outbound

(* line 41: self.cached_block.read().await *)
block_read(t) ==
    /\ pc[t] = "block_read"
    /\ process = "serving"
    /\ block_writer = 0
    /\ block_readers' = block_readers \cup {t}
    /\ pc' = [pc EXCEPT ![t] = "block_contains"]
    /\ UNCHANGED <<blocklist, cache_vars, allow_readers, allow_writer, block_writer,
                   upstream_owner, request, response_edns, classify_vars,
                   upstream_vars, reply_vars, accepted>>
    /\ UNCHANGED main_vars

(* lines 41-43 with the read guard bound to a variable of the function:   *)
(* on a miss it lives on through the rest of is_blocked                    *)
block_contains_keeps_guard(t) ==
    /\ pc[t] = "block_contains"
    /\ process = "serving"
    /\ IF request[t].name \in cached_block
       THEN /\ block_readers' = block_readers \ {t}
            /\ is_blocked_return(t, TRUE)
       ELSE /\ pc' = [pc EXCEPT ![t] = "allow_read"]
            /\ UNCHANGED <<block_readers, verdict, first_verdict, outbound>>
    /\ UNCHANGED <<blocklist, cache_vars, allow_readers, allow_writer, block_writer,
                   upstream_owner, request, response_edns, scanned, prior, after_failure,
                   upstream_vars, sent, sink_ok, response_info, accepted>>
    /\ UNCHANGED main_vars

(* lines 41-43: contains(name), the guard is dropped, return true on a hit *)
block_contains(t) ==
    /\ pc[t] = "block_contains"
    /\ process = "serving"
    /\ block_readers' = block_readers \ {t}
    /\ IF request[t].name \in cached_block
       THEN is_blocked_return(t, TRUE)
       ELSE /\ pc' = [pc EXCEPT ![t] = "allow_read"]
            /\ UNCHANGED <<verdict, first_verdict, outbound>>
    /\ UNCHANGED <<blocklist, cache_vars, allow_readers, allow_writer, block_writer,
                   upstream_owner, request, response_edns, scanned, prior, after_failure,
                   upstream_vars, sent, sink_ok, response_info, accepted>>
    /\ UNCHANGED main_vars

(* line 45: self.cached_allow.read().await *)
allow_read(t) ==
    /\ pc[t] = "allow_read"
    /\ process = "serving"
    /\ allow_writer = 0
    /\ allow_readers' = allow_readers \cup {t}
    /\ pc' = [pc EXCEPT ![t] = "allow_contains"]
    /\ UNCHANGED <<blocklist, cache_vars, allow_writer, block_readers, block_writer,
                   upstream_owner, request, response_edns, classify_vars,
                   upstream_vars, reply_vars, accepted>>
    /\ UNCHANGED main_vars

(* lines 45-47 *)
allow_contains(t) ==
    /\ pc[t] = "allow_contains"
    /\ process = "serving"
    /\ allow_readers' = allow_readers \ {t}
    /\ IF request[t].name \in cached_allow
       THEN is_blocked_return(t, FALSE)
       ELSE /\ pc' = [pc EXCEPT ![t] = "scan"]
            /\ UNCHANGED <<verdict, first_verdict, outbound>>
    /\ UNCHANGED <<blocklist, cache_vars, allow_writer, block_readers, block_writer,
                   upstream_owner, request, response_edns, scanned, prior, after_failure,
                   upstream_vars, sent, sink_ok, response_info, accepted>>
    /\ UNCHANGED main_vars

(* lines 49-50, 58: the loop over the blocklist up to the first suffix     *)
(* that matches; no lock is held                                           *)
scan(t) ==
    /\ pc[t] = "scan"
    /\ process = "serving"
    /\ scanned' = [scanned EXCEPT ![t] = TRUE]
    /\ pc' = [pc EXCEPT ![t] =
          IF \E it \in blocklist : does_end(request[t].name, it)
          THEN "block_write" ELSE "allow_write"]
    /\ UNCHANGED <<blocklist, cache_vars, lock_vars, request, response_edns, verdict,
                   prior, after_failure, first_verdict, upstream_vars, reply_vars,
                   accepted>>
    /\ UNCHANGED main_vars

(* line 51: self.cached_block.write().await *)
block_write(t) ==
    /\ pc[t] = "block_write"
    /\ process = "serving"
    /\ block_writer = 0
    /\ block_readers = {}
    /\ block_writer' = t
    /\ pc' = [pc EXCEPT ![t] = "block_insert"]
    /\ UNCHANGED <<blocklist, cache_vars, allow_readers, allow_writer, block_readers,
                   upstream_owner, request, response_edns, classify_vars,
                   upstream_vars, reply_vars, accepted>>
    /\ UNCHANGED main_vars

(* line 54 without its `return true`: the loop goes on and falls to line 58 *)
block_insert_falls_through(t) ==
    /\ pc[t] = "block_insert"
    /\ process = "serving"
    /\ cached_block' = cached_block \cup {request[t].name}
    /\ block_writer' = 0
    /\ pc' = [pc EXCEPT ![t] = "allow_write"]
    /\ UNCHANGED <<blocklist, cached_allow, allow_readers, allow_writer, block_readers,
                   upstream_owner, request, response_edns, classify_vars,
                   upstream_vars, reply_vars, accepted>>
    /\ UNCHANGED main_vars

(* lines 51-54: insert, the guard is dropped, return true *)
block_insert(t) ==
    /\ pc[t] = "block_insert"
    /\ process = "serving"
    /\ cached_block' = cached_block \cup {request[t].name}
    /\ block_writer' = 0
    /\ is_blocked_return(t, TRUE)
    /\ UNCHANGED <<blocklist, cached_allow, allow_readers, allow_writer, block_readers,
                   upstream_owner, request, response_edns, scanned, prior, after_failure,
                   upstream_vars, sent, sink_ok, response_info, accepted>>
    /\ UNCHANGED main_vars

(* line 58: self.cached_allow.write().await *)
allow_write(t) ==
    /\ pc[t] = "allow_write"
    /\ process = "serving"
    /\ allow_writer = 0
    /\ allow_readers = {}
    /\ allow_writer' = t
    /\ pc' = [pc EXCEPT ![t] = "allow_insert"]
    /\ UNCHANGED <<blocklist, cache_vars, allow_readers, block_readers, block_writer,
                   upstream_owner, request, response_edns, classify_vars,
                   upstream_vars, reply_vars, accepted>>
    /\ UNCHANGED main_vars

(* line 58 without the insert: an allowed verdict is not memoized *)
allow_insert_forgets(t) ==
    /\ pc[t] = "allow_insert"
    /\ process = "serving"
    /\ cached_allow' = cached_allow
    /\ allow_writer' = 0
    /\ is_blocked_return(t, FALSE)
    /\ UNCHANGED <<blocklist, cached_block, allow_readers, block_readers, block_writer,
                   upstream_owner, request, response_edns, scanned, prior, after_failure,
                   upstream_vars, sent, sink_ok, response_info, accepted>>
    /\ UNCHANGED main_vars

(* lines 58-59: insert, the guard is dropped, return false *)
allow_insert(t) ==
    /\ pc[t] = "allow_insert"
    /\ process = "serving"
    /\ cached_allow' = cached_allow \cup {request[t].name}
    /\ allow_writer' = 0
    /\ is_blocked_return(t, FALSE)
    /\ UNCHANGED <<blocklist, cached_block, allow_readers, block_readers, block_writer,
                   upstream_owner, request, response_edns, scanned, prior, after_failure,
                   upstream_vars, sent, sink_ok, response_info, accepted>>
    /\ UNCHANGED main_vars

(* ---------------- forward_to_upstream ---------------- *)
(* line 67: self.upstream.lock().await *)
upstream_lock(t) ==
    /\ pc[t] = "upstream_lock"
    /\ process = "serving"
    /\ upstream_owner = 0
    /\ upstream_owner' = t
    /\ pc' = [pc EXCEPT ![t] = "upstream_clone"]
    /\ UNCHANGED <<blocklist, cache_vars, allow_readers, allow_writer, block_readers,
                   block_writer, request, response_edns, classify_vars,
                   upstream_vars, reply_vars, accepted>>
    /\ UNCHANGED main_vars

(* self.upstream.lock().await.query(..): the query is made through the    *)
(* guard, which lives on while the upstream is awaited                     *)
upstream_clone_keeps_guard(t) ==
    /\ pc[t] = "upstream_clone"
    /\ process = "serving"
    /\ upstream_calls' = [upstream_calls EXCEPT ![t] = @ + 1]
    /\ pc' = [pc EXCEPT ![t] = "upstream_query"]
    /\ UNCHANGED <<blocklist, cache_vars, lock_vars, request, response_edns,
                   classify_vars, upstream_result, reply_vars, accepted>>
    /\ UNCHANGED main_vars

(* lines 67-68: the handle is cloned, the guard is dropped at the end of   *)
(* the block, and the query is issued on the clone                         *)
upstream_clone(t) ==
    /\ pc[t] = "upstream_clone"
    /\ process = "serving"
    /\ upstream_owner' = 0
    /\ upstream_calls' = [upstream_calls EXCEPT ![t] = @ + 1]
    /\ pc' = [pc EXCEPT ![t] = "upstream_query"]
    /\ UNCHANGED <<blocklist, cache_vars, allow_readers, allow_writer, block_readers,
                   block_writer, request, response_edns, classify_vars,
                   upstream_result, reply_vars, accepted>>
    /\ UNCHANGED main_vars

(* a forwarding error that is memoized: the name goes to the blocked set *)
upstream_reply_memoizes_error(t) ==
    /\ pc[t] = "upstream_query"
    /\ process = "serving"
    /\ \E res \in UpstreamResults :
        /\ upstream_result' = [upstream_result EXCEPT ![t] = Some(res)]
        /\ IF IsSome(res)
           THEN /\ pc' = [pc EXCEPT ![t] = "send"]
                /\ outbound' = [outbound EXCEPT ![t] = Some(Forwarded(Unwrap(res)))]
                /\ UNCHANGED <<response_info, cache_vars>>
           ELSE /\ pc' = [pc EXCEPT ![t] = "done"]
                /\ response_info' = [response_info EXCEPT ![t] = ErrorInfo]
                /\ cached_block' = cached_block \cup {request[t].name}
                /\ UNCHANGED <<outbound, cached_allow>>
    /\ UNCHANGED <<blocklist, lock_vars, request, response_edns,
                   classify_vars, upstream_calls, sent, sink_ok, accepted>>
    /\ UNCHANGED main_vars

(* a forwarding error that is retried once before it is given up *)
upstream_reply_retries(t) ==
    /\ pc[t] = "upstream_query"
    /\ process = "serving"
    /\ \E res \in UpstreamResults :
        IF IsSome(res)
        THEN /\ upstream_result' = [upstream_result EXCEPT ![t] = Some(res)]
             /\ pc' = [pc EXCEPT ![t] = "send"]
             /\ outbound' = [outbound EXCEPT ![t] = Some(Forwarded(Unwrap(res)))]
             /\ UNCHANGED <<response_info, upstream_calls>>
        ELSE IF upstream_calls[t] < 2
        THEN /\ upstream_calls' = [upstream_calls EXCEPT ![t] = @ + 1]
             /\ UNCHANGED <<upstream_result, pc, outbound, response_info>>
        ELSE /\ upstream_result' = [upstream_result EXCEPT ![t] = Some(res)]
             /\ pc' = [pc EXCEPT ![t] = "done"]
             /\ response_info' = [response_info EXCEPT ![t] = ErrorInfo]
             /\ UNCHANGED <<outbound, upstream_calls>>
    /\ UNCHANGED <<blocklist, cache_vars, lock_vars, request, response_edns,
                   classify_vars, sent, sink_ok, accepted>>
    /\ UNCHANGED main_vars

(* lines 68-69 and 90-113: the upstream answers or fails.  An error leaves *)
(* handle_query and try_handle_request through `?` and handle_request      *)
(* turns it into its ServFail ResponseInfo; an answer is built into the    *)
(* outbound message.                                                       *)
upstream_reply(t) ==
    /\ pc[t] = "upstream_query"
    /\ process = "serving"
    /\ \E res \in UpstreamResults :
        /\ upstream_result' = [upstream_result EXCEPT ![t] = Some(res)]
        /\ IF IsSome(res)
           THEN /\ pc' = [pc EXCEPT ![t] = "send"]
                /\ outbound' = [outbound EXCEPT ![t] = Some(Forwarded(Unwrap(res)))]
                /\ UNCHANGED response_info
           ELSE /\ pc' = [pc EXCEPT ![t] = "done"]
                /\ response_info' = [response_info EXCEPT ![t] = ErrorInfo]
                /\ UNCHANGED outbound
    /\ UNCHANGED <<blocklist, cache_vars, lock_vars, request, response_edns,
                   classify_vars, upstream_calls, sent, sink_ok, accepted>>
    /\ UNCHANGED main_vars

(* ---------------- sending ---------------- *)
(* the outcome of ResponseHandler::send_response as handle_request returns *)
(* it: the ResponseInfo of the message sent, or the ServFail one on error  *)
SinkOutcome(ok, msg) == IF ok THEN Some(msg.rcode) ELSE ErrorInfo

(* send_response without lines 137-139: the response EDNS is never set *)
send_response_without_edns(t) ==
    /\ pc[t] = "send"
    /\ process = "serving"
    /\ \E ok \in BOOLEAN :
        /\ sent' = [sent EXCEPT ![t] = Append(@, Unwrap(outbound[t]))]
        /\ sink_ok' = [sink_ok EXCEPT ![t] = ok]
        /\ response_info' = [response_info EXCEPT ![t] =
              SinkOutcome(ok, Unwrap(outbound[t]))]
    /\ pc' = [pc EXCEPT ![t] = "done"]
    /\ UNCHANGED <<blocklist, cache_vars, lock_vars, request, response_edns,
                   classify_vars, upstream_vars, outbound, accepted>>
    /\ UNCHANGED main_vars

(* a failed send that is followed by a second message, an error response *)
send_response_resends(t) ==
    /\ pc[t] = "send"
    /\ process = "serving"
    /\ \E ok \in BOOLEAN :
        LET msg == IF IsSome(response_edns[t])
                   THEN [Unwrap(outbound[t]) EXCEPT !.edns = response_edns[t]]
                   ELSE Unwrap(outbound[t])
        IN  /\ sent' = [sent EXCEPT ![t] =
                  IF ok THEN Append(@, msg)
                  ELSE Append(Append(@, msg), NoRecords(ServFail))]
            /\ sink_ok' = [sink_ok EXCEPT ![t] = ok]
            /\ response_info' = [response_info EXCEPT ![t] = SinkOutcome(ok, msg)]
    /\ pc' = [pc EXCEPT ![t] = "done"]
    /\ UNCHANGED <<blocklist, cache_vars, lock_vars, request, response_edns,
                   classify_vars, upstream_vars, outbound, accepted>>
    /\ UNCHANGED main_vars

(* send_response, lines 125-142: set_edns if there is response EDNS, then  *)
(* hand the message to the sink, which may fail                            *)
send_response(t) ==
    /\ pc[t] = "send"
    /\ process = "serving"
    /\ \E ok \in BOOLEAN :
        LET msg == IF IsSome(response_edns[t])
                   THEN [Unwrap(outbound[t]) EXCEPT !.edns = response_edns[t]]
                   ELSE Unwrap(outbound[t])
        IN  /\ sent' = [sent EXCEPT ![t] = Append(@, msg)]
            /\ sink_ok' = [sink_ok EXCEPT ![t] = ok]
            /\ response_info' = [response_info EXCEPT ![t] = SinkOutcome(ok, msg)]
    /\ pc' = [pc EXCEPT ![t] = "done"]
    /\ UNCHANGED <<blocklist, cache_vars, lock_vars, request, response_edns,
                   classify_vars, upstream_vars, outbound, accepted>>
    /\ UNCHANGED main_vars

(* lines 164-166: the BADVERS message goes to the sink directly *)
send_badvers(t) ==
    /\ pc[t] = "send_badvers"
    /\ process = "serving"
    /\ \E ok \in BOOLEAN :
        /\ sent' = [sent EXCEPT ![t] = Append(@, Unwrap(outbound[t]))]
        /\ sink_ok' = [sink_ok EXCEPT ![t] = ok]
        /\ response_info' = [response_info EXCEPT ![t] =
              SinkOutcome(ok, Unwrap(outbound[t]))]
    /\ pc' = [pc EXCEPT ![t] = "done"]
    /\ UNCHANGED <<blocklist, cache_vars, lock_vars, request, response_edns,
                   classify_vars, upstream_vars, outbound, accepted>>
    /\ UNCHANGED main_vars

(* an eviction at the end of a request: its name leaves the cache *)
task_ends_evicts(t) ==
    /\ pc[t] = "done"
    /\ process = "serving"
    /\ pc' = [pc EXCEPT ![t] = "idle"]
    /\ request' = [request EXCEPT ![t] = NoRequest]
    /\ response_edns' = [response_edns EXCEPT ![t] = None]
    /\ verdict' = [verdict EXCEPT ![t] = None]
    /\ scanned' = [scanned EXCEPT ![t] = FALSE]
    /\ prior' = [prior EXCEPT ![t] = None]
    /\ after_failure' = [after_failure EXCEPT ![t] = FALSE]
    /\ upstream_calls' = [upstream_calls EXCEPT ![t] = 0]
    /\ upstream_result' = [upstream_result EXCEPT ![t] = None]
    /\ outbound' = [outbound EXCEPT ![t] = None]
    /\ sent' = [sent EXCEPT ![t] = <<>>]
    /\ sink_ok' = [sink_ok EXCEPT ![t] = TRUE]
    /\ response_info' = [response_info EXCEPT ![t] = None]
    /\ cached_allow' = cached_allow \ {request[t].name}
    /\ cached_block' = cached_block \ {request[t].name}
    /\ UNCHANGED <<blocklist, lock_vars, first_verdict, accepted>>
    /\ UNCHANGED main_vars

(* handle_request has returned its ResponseInfo: the task ends and its     *)
(* slot is free for the next request                                       *)
task_ends(t) ==
    /\ pc[t] = "done"
    /\ process = "serving"
    /\ pc' = [pc EXCEPT ![t] = "idle"]
    /\ request' = [request EXCEPT ![t] = NoRequest]
    /\ response_edns' = [response_edns EXCEPT ![t] = None]
    /\ verdict' = [verdict EXCEPT ![t] = None]
    /\ scanned' = [scanned EXCEPT ![t] = FALSE]
    /\ prior' = [prior EXCEPT ![t] = None]
    /\ after_failure' = [after_failure EXCEPT ![t] = FALSE]
    /\ upstream_calls' = [upstream_calls EXCEPT ![t] = 0]
    /\ upstream_result' = [upstream_result EXCEPT ![t] = None]
    /\ outbound' = [outbound EXCEPT ![t] = None]
    /\ sent' = [sent EXCEPT ![t] = <<>>]
    /\ sink_ok' = [sink_ok EXCEPT ![t] = TRUE]
    /\ response_info' = [response_info EXCEPT ![t] = None]
    /\ UNCHANGED <<blocklist, cache_vars, lock_vars, first_verdict, accepted>>
    /\ UNCHANGED main_vars

(* ---------------- main_inner ---------------- *)
(* select! has taken a branch: main_inner returns, the server and the      *)
(* runtime are dropped and with them every request task at its await       *)
(* point, guards included.  The cache is left as it was at that moment.    *)
shutdown ==
    /\ process' = "stopped"
    /\ allow_readers' = {}
    /\ allow_writer' = 0
    /\ block_readers' = {}
    /\ block_writer' = 0
    /\ upstream_owner' = 0
    /\ pc' = [t \in Tasks |-> "idle"]
    /\ request' = [t \in Tasks |-> NoRequest]
    /\ response_edns' = [t \in Tasks |-> None]
    /\ verdict' = [t \in Tasks |-> None]
    /\ scanned' = [t \in Tasks |-> FALSE]
    /\ prior' = [t \in Tasks |-> None]
    /\ after_failure' = [t \in Tasks |-> FALSE]
    /\ upstream_calls' = [t \in Tasks |-> 0]
    /\ upstream_result' = [t \in Tasks |-> None]
    /\ outbound' = [t \in Tasks |-> None]
    /\ sent' = [t \in Tasks |-> <<>>]
    /\ sink_ok' = [t \in Tasks |-> TRUE]
    /\ response_info' = [t \in Tasks |-> None]
    /\ UNCHANGED <<blocklist, cache_vars, first_verdict, accepted>>

(* the driver ends and the branch stays untaken: the process serves on *)
upstream_handle_done_unnoticed ==
    /\ process = "serving"
    /\ driver = "running"
    /\ \E outcome \in {"ok", "err"} : driver' = outcome
    /\ UNCHANGED <<blocklist, cache_vars, lock_vars, pc, request, response_edns,
                   classify_vars, upstream_vars, reply_vars, accepted, process>>

(* lines 19-21: the upstream driver's JoinHandle completes, with Ok or     *)
(* with Err, and select! takes its branch                                  *)
upstream_handle_done ==
    /\ process = "serving"
    /\ driver = "running"
    /\ \E outcome \in {"ok", "err"} : driver' = outcome
    /\ shutdown

(* lines 22-24: block_until_done() completes *)
server_handle_done ==
    /\ process = "serving"
    /\ UNCHANGED driver
    /\ shutdown

Next ==
    \/ \E t \in Tasks :
        \/ handle_request(t)
        \/ block_read(t)
        \/ block_contains(t)
        \/ allow_read(t)
        \/ allow_contains(t)
        \/ scan(t)
        \/ block_write(t)
        \/ block_insert(t)
        \/ allow_write(t)
        \/ allow_insert(t)
        \/ upstream_lock(t)
        \/ upstream_clone(t)
        \/ upstream_reply(t)
        \/ send_response(t)
        \/ send_badvers(t)
        \/ task_ends(t)
    \/ upstream_handle_done
    \/ server_handle_done

Spec == Init /\ [][Next]_vars

(* the steps of is_blocked and the taking and dropping of the upstream     *)
(* mutex: code that waits for nothing but the runtime's scheduler and its  *)
(* locks.  The runtime polls every task that is ready, and a lock that is  *)
(* free is given to a task that waits for it; the arrival of a request and *)
(* the upstream's answer are under no such obligation.                     *)
is_blocked_step(t) ==
    \/ block_read(t) \/ block_contains(t) \/ allow_read(t) \/ allow_contains(t)
    \/ scan(t) \/ block_write(t) \/ block_insert(t) \/ allow_write(t)
    \/ allow_insert(t)

forward_lock_step(t) == upstream_lock(t) \/ upstream_clone(t)

FairSpec ==
    /\ Spec
    /\ \A t \in Tasks : WF_vars(is_blocked_step(t)) /\ WF_vars(forward_lock_step(t))

(* ======================= properties ======================= *)
Name(t) == request[t].name
Returned(t) == pc[t] = "done"
Classified(t) == IsSome(verdict[t])
NoSections(m) == m.answers = <<>> /\ m.authorities = <<>> /\ m.additionals = <<>>

(* n ends with s and the character of n right before that suffix is a dot *)
BoundaryMatch(n, s) ==
    /\ CharCount(n) > CharCount(s)
    /\ EndsWith(n, s)
    /\ n[CharCount(n) - CharCount(s)] = "."

(* C1: a query name equal to a blocklist suffix is classified blocked and  *)
(* is put into the blocked set.                                            *)
C1_ExactMatchBlocked ==
    \A t \in Tasks :
        (Classified(t) /\ Name(t) \in blocklist) =>
            (verdict[t] = Some(TRUE) /\ Name(t) \in cached_block)

(* C2: no name is in the allowed set and in the blocked set at once, under *)
(* every interleaving of the request tasks.                                *)
C2_CacheSetsDisjoint == cached_allow \cap cached_block = {}

(* two tasks have both scanned the blocklist for the same new name and     *)
(* both have inserted it                                                   *)
C2_Witness ==
    \E t, u \in Tasks :
        /\ t # u
        /\ Name(t) = Name(u)
        /\ scanned[t] /\ scanned[u]
        /\ Classified(t) /\ Classified(u)

(* C3: a request task does not end without a response having been handed   *)
(* to the request's response sink.                                         *)
C3_EveryRequestAnswered ==
    \A t \in Tasks : Returned(t) => Len(sent[t]) >= 1

(* C4: is_blocked returns blocked exactly if the name ends, on a label     *)
(* boundary, with some blocklist suffix shorter than the name.             *)
C4_BlockedIffBoundaryMatch ==
    \A t \in Tasks :
        Classified(t) =>
            (Unwrap(verdict[t]) <=> \E s \in blocklist : BoundaryMatch(Name(t), s))

(* C5: an is_blocked call for a name that starts after a call for the same *)
(* name has completed returns the verdict of the first completed call and  *)
(* never iterates the blocklist.                                           *)
C5_CacheIdempotence ==
    \A t \in Tasks :
        (IsSome(prior[t]) /\ pc[t] # "idle") =>
            /\ ~scanned[t]
            /\ pc[t] \notin {"scan", "block_write", "block_insert", "allow_write",
                             "allow_insert"}
            /\ Classified(t) => verdict[t] = prior[t]

C5_Witness ==
    \E t \in Tasks : IsSome(prior[t]) /\ Classified(t) /\ Returned(t)

(* C6: when the upstream call of a request fails, the response sent for    *)
(* the request has code ServFail and no answer records.                    *)
C6_UpstreamErrorSendsServFail ==
    \A t \in Tasks :
        (Returned(t) /\ upstream_result[t] = Some(None)) =>
            /\ Len(sent[t]) = 1
            /\ sent[t][1].rcode = ServFail
            /\ sent[t][1].answers = <<>>

(* C7: a query whose name is classified blocked is answered NXDomain with  *)
(* empty answer, authority and additional sections, and the upstream is    *)
(* never called for it.                                                    *)
C7_BlockedGetsNXDomain ==
    \A t \in Tasks :
        verdict[t] = Some(TRUE) =>
            /\ upstream_calls[t] = 0
            /\ upstream_result[t] = None
            /\ pc[t] \in {"send", "done"}
            /\ Returned(t) =>
                  /\ Len(sent[t]) = 1
                  /\ sent[t][1].rcode = NXDomain
                  /\ NoSections(sent[t][1])

C7_Witness ==
    \E t \in Tasks : verdict[t] = Some(TRUE) /\ Returned(t) /\ Len(sent[t]) = 1

(* C8: a query whose name is classified allowed and whose upstream call    *)
(* succeeds is answered with the upstream's response code, its recursion-  *)
(* available flag and its answer, authority and additional records as they *)
(* came.                                                                   *)
C8_ForwardedVerbatim ==
    \A t \in Tasks :
        (Returned(t) /\ verdict[t] = Some(FALSE) /\ IsSome(upstream_result[t])
            /\ IsSome(Unwrap(upstream_result[t]))) =>
            LET up == Unwrap(Unwrap(upstream_result[t]))
            IN  /\ Len(sent[t]) = 1
                /\ sent[t][1].rcode = up.rcode
                /\ sent[t][1].ra = up.ra
                /\ sent[t][1].answers = up.answers
                /\ sent[t][1].authorities = up.authorities
                /\ sent[t][1].additionals = up.additionals

(* an upstream answer with another code than NoError and with records in   *)
(* all three sections has each been relayed                                *)
C8_Witness ==
    /\ \E t \in Tasks :
        /\ Returned(t) /\ verdict[t] = Some(FALSE) /\ Len(sent[t]) = 1
        /\ sent[t][1].rcode = 3
    /\ \E t \in Tasks :
        /\ Returned(t) /\ verdict[t] = Some(FALSE) /\ Len(sent[t]) = 1
        /\ sent[t][1].additionals # <<>> /\ sent[t][1].authorities # <<>>

NewerEdns(r) == IsSome(r.edns) /\ Unwrap(r.edns).version > 0

BadVersMessage(m) ==
    /\ m.rcode = BADVERS
    /\ NoSections(m)
    /\ IsSome(m.edns)
    /\ Unwrap(m.edns).rcode_high = 1

(* C9 as stated: every request with EDNS version above 0 is answered       *)
(* BADVERS with no records.                                                *)
C9_NewerEdnsGetsBadVers ==
    \A t \in Tasks :
        (Returned(t) /\ NewerEdns(request[t])) =>
            (Len(sent[t]) = 1 /\ BadVersMessage(sent[t][1]))

(* C9 amended: every request that has its request info (exactly one query) *)
(* and EDNS version above 0 is answered BADVERS with no records and with   *)
(* the high byte of BADVERS (1) as the EDNS extended code, whatever its    *)
(* message type and op-code; it is never classified and never forwarded.   *)
C9_WellFormedNewerEdnsGetsBadVers ==
    \A t \in Tasks :
        (pc[t] # "idle" /\ request[t].queries_ok /\ NewerEdns(request[t])) =>
            /\ pc[t] \in {"send_badvers", "done"}
            /\ ~Classified(t) /\ ~scanned[t]
            /\ upstream_calls[t] = 0
            /\ Returned(t) => (Len(sent[t]) = 1 /\ BadVersMessage(sent[t][1]))

(* a request that is no query (it would get NotImp past the EDNS check) has *)
(* got BADVERS                                                             *)
C9_Witness ==
    \E t \in Tasks :
        /\ Returned(t) /\ request[t].queries_ok /\ NewerEdns(request[t])
        /\ ~IsQuery(request[t])
        /\ Len(sent[t]) = 1 /\ sent[t][1].rcode = BADVERS

(* C10: a request that has its request info, passes the EDNS check and is  *)
(* not of message type Query with op-code Query is answered NotImp, with   *)
(* the response EDNS (version 0, DNSSEC-OK, larger of the requested        *)
(* payload and 512) exactly if the request had EDNS; it is never           *)
(* classified and never forwarded.                                         *)
C10_NonQueryGetsNotImp ==
    \A t \in Tasks :
        (pc[t] # "idle" /\ request[t].queries_ok /\ ~NewerEdns(request[t])
            /\ ~IsQuery(request[t])) =>
            /\ pc[t] \in {"send", "done"}
            /\ ~Classified(t) /\ ~scanned[t]
            /\ upstream_calls[t] = 0
            /\ Returned(t) =>
                  /\ Len(sent[t]) = 1
                  /\ sent[t][1].rcode = NotImp
                  /\ NoSections(sent[t][1])
                  /\ sent[t][1].edns =
                        IF IsSome(request[t].edns)
                        THEN Some([version |-> 0, dnssec_ok |-> TRUE,
                                   max_payload |->
                                      Max(Unwrap(request[t].edns).max_payload, 512),
                                   rcode_high |-> 0])
                        ELSE None

C10_Witness ==
    \E t \in Tasks :
        /\ Returned(t) /\ request[t].queries_ok /\ ~IsQuery(request[t])
        /\ IsSome(request[t].edns)
        /\ Len(sent[t]) = 1 /\ sent[t][1].rcode = NotImp /\ IsSome(sent[t][1].edns)

(* C11: the max-payload of the EDNS of every response is the larger of the *)
(* request's max-payload and 512.                                          *)
C11_PayloadFloor ==
    \A t \in Tasks :
        \A i \in 1..Len(sent[t]) :
            IsSome(sent[t][i].edns) =>
                /\ IsSome(request[t].edns)
                /\ LET p == Unwrap(request[t].edns).max_payload
                       q == Unwrap(sent[t][i].edns).max_payload
                   IN  /\ q >= 512
                       /\ q >= p
                       /\ q = p \/ q = 512
                       /\ p >= 512 => q = p

(* a request asking for 256 was answered with 512 and one asking for 4096  *)
(* with 4096                                                               *)
C11_Witness ==
    /\ \E t \in Tasks :
        /\ Len(sent[t]) = 1 /\ IsSome(sent[t][1].edns)
        /\ Unwrap(request[t].edns).max_payload = 256
        /\ Unwrap(sent[t][1].edns).max_payload = 512
    /\ \E t \in Tasks :
        /\ Len(sent[t]) = 1 /\ IsSome(sent[t][1].edns)
        /\ Unwrap(request[t].edns).max_payload = 4096
        /\ Unwrap(sent[t][1].edns).max_payload = 4096

(* C15: once the upstream driver has ended, with Ok or with Err, the       *)
(* process has stopped; a stopped process stays stopped, its driver is not *)
(* started again, no request task runs and no request is accepted.         *)
C15_DriverExitShutsDown ==
    [][ /\ (driver # "running")' => (process = "stopped")'
        /\ process = "stopped" =>
              /\ process' = "stopped"
              /\ driver' = driver
              /\ accepted' = accepted
              /\ \A t \in Tasks : pc'[t] = "idle" ]_vars

(* the driver ended while a request was in flight and while further        *)
(* requests were still to come                                             *)
C15_Witness ==
    /\ process = "stopped"
    /\ driver \in {"ok", "err"}
    /\ accepted > 0
    /\ accepted < MaxRequests
    /\ \A t \in Tasks : pc[t] = "idle"

HoldsLock(t) ==
    \/ t \in allow_readers
    \/ t \in block_readers
    \/ allow_writer = t
    \/ block_writer = t
    \/ upstream_owner = t

(* some step of the task's own code can be taken *)
CanStep(t) ==
    ENABLED (\/ block_read(t) \/ block_contains(t) \/ allow_read(t)
             \/ allow_contains(t) \/ scan(t) \/ block_write(t) \/ block_insert(t)
             \/ allow_write(t) \/ allow_insert(t) \/ upstream_lock(t)
             \/ upstream_clone(t) \/ upstream_reply(t) \/ send_response(t)
             \/ send_badvers(t) \/ task_ends(t))

(* C12: a task that waits for the upstream's answer holds no lock, the     *)
(* upstream-handle mutex included, and every other task with a request in  *)
(* hand can take its next step (unless a third task holds a lock).         *)
C12_StalledUpstreamBlocksNobody ==
    \A t \in Tasks :
        pc[t] = "upstream_query" =>
            /\ ~HoldsLock(t)
            /\ \A u \in Tasks \ {t} :
                  pc[u] # "idle" =>
                      (CanStep(u) \/ \E w \in Tasks \ {t, u} : HoldsLock(w))

(* while one task waits for the upstream, another has taken the upstream   *)
(* handle's mutex                                                          *)
C12_Witness ==
    \E t, u \in Tasks :
        /\ pc[t] = "upstream_query"
        /\ pc[u] = "upstream_clone"
        /\ upstream_owner = u

(* C13: no step removes a name from the allowed or the blocked set, and a  *)
(* step adds a name only as the insert of an is_blocked call for that name. *)
C13_CacheOnlyGrows ==
    [][ /\ cached_allow \subseteq cached_allow'
        /\ cached_block \subseteq cached_block'
        /\ \A n \in (cached_allow' \ cached_allow) \cup (cached_block' \ cached_block) :
              \E t \in Tasks :
                  /\ request[t].name = n
                  /\ pc[t] \in {"allow_insert", "block_insert"}
                  /\ pc'[t] # pc[t] ]_vars

(* both sets hold names of requests that have ended *)
C13_Witness ==
    /\ cached_allow # {}
    /\ cached_block # {}
    /\ \A t \in Tasks : pc[t] = "idle"
    /\ process = "serving"

(* the step in which the forwarding of t's request fails *)
ForwardingFails(t) ==
    pc[t] = "upstream_query" /\ upstream_result'[t] = Some(None)

TaskState(t) ==
    <<pc[t], request[t], response_edns[t], verdict[t], scanned[t], upstream_calls[t],
      upstream_result[t], outbound[t], sent[t], sink_ok[t], response_info[t]>>

C16_CacheAgreesWithReference ==
    /\ \A n \in cached_block : \E s \in blocklist : BoundaryMatch(n, s)
    /\ \A n \in cached_allow : ~ \E s \in blocklist : BoundaryMatch(n, s)

(* C17: every message sent carries EDNS exactly if the request carried     *)
(* EDNS, and the EDNS of a message sent has version 0 and DNSSEC-OK set.   *)
C17_ResponseEdnsIffRequestEdns ==
    \A t \in Tasks :
        \A i \in 1..Len(sent[t]) :
            /\ IsSome(sent[t][i].edns) <=> IsSome(request[t].edns)
            /\ IsSome(sent[t][i].edns) =>
                  /\ Unwrap(sent[t][i].edns).version = OLD_VERSION
                  /\ Unwrap(sent[t][i].edns).dnssec_ok

(* a BADVERS answer to a request with EDNS version 1 has been sent, and a  *)
(* request without EDNS has been answered without                          *)
C17_Witness ==
    /\ \E t \in Tasks :
        /\ Len(sent[t]) = 1 /\ NewerEdns(request[t])
        /\ sent[t][1].rcode = BADVERS /\ IsSome(sent[t][1].edns)
    /\ \E t \in Tasks :
        /\ Len(sent[t]) = 1 /\ request[t].edns = None /\ sent[t][1].edns = None

(* the request ends before handle_query's classification: it has no        *)
(* request info, it is answered BADVERS, or it is answered NotImp          *)
EndsUnclassified(r) == ~r.queries_ok \/ NewerEdns(r) \/ ~IsQuery(r)

(* C19: every step of a request that ends before classification leaves the *)
(* allowed and the blocked set as they were and leaves the request's count *)
(* of upstream calls at zero; a request makes one upstream call once it is *)
(* classified allowed and has passed the upstream mutex, and none          *)
(* otherwise, so never more than one.                                      *)
C19_UpstreamCalledOnceIfAllowed ==
    [][ \A t \in Tasks :
          /\ ( /\ pc'[t] # pc[t]
               /\ \/ pc[t] # "idle" /\ EndsUnclassified(request[t])
                  \/ pc'[t] # "idle" /\ EndsUnclassified(request'[t]) ) =>
                    /\ UNCHANGED cache_vars
                    /\ upstream_calls'[t] = 0
                    /\ ~IsSome(verdict'[t])
          /\ upstream_calls'[t] =
                IF /\ verdict'[t] = Some(FALSE)
                   /\ pc'[t] \in {"upstream_query", "send", "done"}
                THEN 1 ELSE 0 ]_vars

(* a request without request info has ended with no upstream call while an *)
(* allowed one has ended with one                                          *)
C19_Witness ==
    \E t, u \in Tasks :
        /\ Returned(t) /\ ~request[t].queries_ok /\ upstream_calls[t] = 0
        /\ cached_allow # {}
        /\ Returned(u) /\ verdict[u] = Some(FALSE) /\ upstream_calls[u] = 1

PathBadVers(t) == request[t].queries_ok /\ NewerEdns(request[t])
PathNotImp(t) ==
    request[t].queries_ok /\ ~NewerEdns(request[t]) /\ ~IsQuery(request[t])
PathBlocked(t) == verdict[t] = Some(TRUE)
PathForwarded(t) ==
    IsSome(upstream_result[t]) /\ IsSome(Unwrap(upstream_result[t]))

(* C20: a request has at most one message sent to its sink; no two of the  *)
(* four sending paths are taken by one request, a message sent is the one  *)
(* of the path taken, and a request whose send failed has that one message *)
(* and no other.                                                           *)
C20_AtMostOneResponse ==
    \A t \in Tasks :
        /\ Len(sent[t]) <= 1
        /\ pc[t] # "idle" =>
              Cardinality({k \in 1..4 :
                  \/ k = 1 /\ PathBadVers(t)
                  \/ k = 2 /\ PathNotImp(t)
                  \/ k = 3 /\ PathBlocked(t)
                  \/ k = 4 /\ PathForwarded(t)}) <= 1
        /\ Len(sent[t]) = 1 =>
              /\ Returned(t)
              /\ \/ PathBadVers(t) /\ sent[t][1].rcode = BADVERS
                 \/ PathNotImp(t) /\ sent[t][1].rcode = NotImp
                 \/ PathBlocked(t) /\ sent[t][1].rcode = NXDomain
                 \/ PathForwarded(t) /\
                       sent[t][1].rcode = Unwrap(Unwrap(upstream_result[t])).rcode
        /\ (Returned(t) /\ ~sink_ok[t]) => Len(sent[t]) = 1

(* the send of a forwarded answer has failed and the request has ended     *)
C20_Witness ==
    \E t \in Tasks :
        /\ Returned(t) /\ ~sink_ok[t] /\ PathForwarded(t)
        /\ Len(sent[t]) = 1 /\ response_info[t] = Some(ServFail)

InClassify(t) ==
    pc[t] \in {"block_read", "block_contains", "allow_read", "allow_contains",
               "scan", "block_write", "block_insert", "allow_write", "allow_insert"}

LocksHeld(t) ==
    {k \in {"block_read", "block_write", "allow_read", "allow_write", "upstream"} :
        \/ k = "block_read" /\ t \in block_readers
        \/ k = "block_write" /\ block_writer = t
        \/ k = "allow_read" /\ t \in allow_readers
        \/ k = "allow_write" /\ allow_writer = t
        \/ k = "upstream" /\ upstream_owner = t}

(* the lock a task holds at each place of its code *)
LockDiscipline ==
    \A t \in Tasks :
        LocksHeld(t) =
            CASE pc[t] = "block_contains" -> {"block_read"}
              [] pc[t] = "allow_contains" -> {"allow_read"}
              [] pc[t] = "block_insert" -> {"block_write"}
              [] pc[t] = "allow_insert" -> {"allow_write"}
              [] pc[t] = "upstream_clone" -> {"upstream"}
              [] OTHER -> {}

(* C18: at every moment a task holds at most one lock: shared access to a  *)
(* set only for the membership check on it, exclusive access only for the  *)
(* insert, the upstream mutex only to clone the handle, and no lock during *)
(* the scan or while the upstream is awaited; and under fair scheduling    *)
(* every is_blocked call that has begun returns its verdict, unless the    *)
(* process ends first.                                                     *)
C18_ClassifyReturns ==
    /\ []LockDiscipline
    /\ \A t \in Tasks :
          InClassify(t) ~> (Classified(t) \/ process = "stopped")

(* a task that has scanned waits for exclusive access while the other task *)
(* holds shared access to the same set                                     *)
C18_Witness ==
    \E t, u \in Tasks :
        /\ pc[t] = "allow_write" /\ scanned[t]
        /\ u \in allow_readers
====
